---------------------------- MODULE Spec2Model ----------------------------
(***************************************************************************)
(* A model of the two text-layer augmentation pipelines of the repository: *)
(*   Dialect A: augment_coco_json_with_pdf_text_layer.py    (COCO)         *)
(*   Dialect B: augment_labelme_json_with_pdf_text_layer.py (LabelMe)      *)
(* Strings that the code parses (file names) are sequences of one-letter   *)
(* strings; an extracted text is the empty sequence (the empty string) or  *)
(* a tuple naming the page and the clip rectangle it was read from.        *)
(***************************************************************************)
EXTENDS Integers, Sequences, FiniteSets, TLC

(***************************************************************************)
(* Bounds of the model.                                                    *)
(***************************************************************************)
MaxItems == 2
MaxPages == 2
MaxAnn == 2
MaxShapes == 2
MaxFiles == 2
MaxListing == 3
MaxImages == 2

(***************************************************************************)
(* Characters and the string functions of Python the code relies on.       *)
(***************************************************************************)
Digits == {"0", "1", "2", "3", "4", "5", "6", "7", "8", "9"}

\* str.isdigit on one character
IsDigit(c) == c \in Digits

DigitVal(c) ==
  CASE c = "0" -> 0 [] c = "1" -> 1 [] c = "2" -> 2 [] c = "3" -> 3
    [] c = "4" -> 4 [] c = "5" -> 5 [] c = "6" -> 6 [] c = "7" -> 7
    [] c = "8" -> 8 [] c = "9" -> 9

\* str.lower on one character (the letters the model's names use)
LowerChar(c) ==
  CASE c = "P" -> "p" [] c = "A" -> "a" [] c = "G" -> "g" [] c = "E" -> "e"
    [] c = "J" -> "j" [] c = "S" -> "s" [] c = "O" -> "o" [] c = "N" -> "n"
    [] OTHER -> c

Lower(s) == [i \in 1..Len(s) |-> LowerChar(s[i])]

\* int() of a non-empty string of decimal digits
RECURSIVE IntOf(_)
IntOf(s) ==
  IF s = <<>> THEN 0
  ELSE 10 * IntOf(SubSeq(s, 1, Len(s) - 1)) + DigitVal(s[Len(s)])

EndsWith(s, suffix) ==
  /\ Len(s) >= Len(suffix)
  /\ SubSeq(s, Len(s) - Len(suffix) + 1, Len(s)) = suffix

StartsWithAt(s, i, prefix) ==
  /\ Len(s) >= i - 1 + Len(prefix)
  /\ SubSeq(s, i, i - 1 + Len(prefix)) = prefix

DotJson == <<".", "j", "s", "o", "n">>
PagePrefix == <<"p", "a", "g", "e", "_">>

\* the end of the run of digits of s that starts at position i (i - 1: none)
RECURSIVE DigitRunEnd(_, _)
DigitRunEnd(s, i) ==
  IF i <= Len(s) /\ IsDigit(s[i]) THEN DigitRunEnd(s, i + 1) ELSE i - 1

(***************************************************************************)
(* re.match(r'page_(\d+)\.json', filename, re.IGNORECASE): anchored at the *)
(* start of the name only; \d+ is greedy and the next character must be    *)
(* the dot, so the group is the whole run of digits after "page_".         *)
(* The result is <<>> (no match) or <<group 1>>.                           *)
(***************************************************************************)
PageMatch(filename) ==
  LET low == Lower(filename)
      e == DigitRunEnd(filename, 6)
  IN IF /\ StartsWithAt(low, 1, PagePrefix)
        /\ e >= 6
        /\ StartsWithAt(low, e + 1, DotJson)
     THEN <<SubSeq(filename, 6, e)>>
     ELSE <<>>

\* list.sort(key=lambda x: x[0]): a stable sort, by insertion
RECURSIVE InsertByKey(_, _)
InsertByKey(sorted, x) ==
  IF sorted = <<>> THEN <<x>>
  ELSE IF sorted[Len(sorted)][1] <= x[1] THEN Append(sorted, x)
  ELSE Append(InsertByKey(SubSeq(sorted, 1, Len(sorted) - 1), x),
              sorted[Len(sorted)])

\* the list left in the order of the directory listing
KeepListingOrder(s) == s

RECURSIVE SortByKey(_)
SortByKey(s) ==
  IF s = <<>> THEN <<>>
  ELSE InsertByKey(SortByKey(SubSeq(s, 1, Len(s) - 1)), s[Len(s)])

\* the loop of get_page_json_files over os.listdir(images_dir)
RECURSIVE CollectPageFiles(_)
CollectPageFiles(listing) ==
  IF listing = <<>> THEN <<>>
  ELSE LET filename == listing[Len(listing)]
           rest == CollectPageFiles(SubSeq(listing, 1, Len(listing) - 1))
       IN IF EndsWith(Lower(filename), DotJson) /\ PageMatch(filename) # <<>>
          THEN Append(rest, <<IntOf(PageMatch(filename)[1]), filename>>)
          ELSE rest

(***************************************************************************)
(* get_page_json_files(images_dir).  The directory is                      *)
(* [exists |-> BOOLEAN, files |-> the names in os.listdir's order]; a path *)
(* is the file's name (the directory is fixed).                            *)
(***************************************************************************)
get_page_json_files(images_dir) ==
  IF ~images_dir.exists THEN <<>>
  ELSE SortByKey(CollectPageFiles(images_dir.files))

(***************************************************************************)
(* os.path.basename and os.path.splitext(...)[0].                          *)
(***************************************************************************)
RECURSIVE LastIndexOf(_, _)
LastIndexOf(s, c) ==
  IF s = <<>> THEN 0
  ELSE IF s[Len(s)] = c THEN Len(s)
  ELSE LastIndexOf(SubSeq(s, 1, Len(s) - 1), c)

Basename(path) == SubSeq(path, LastIndexOf(path, "/") + 1, Len(path))

\* splitext: the extension starts at the last dot, unless only dots precede it
SplitextRoot(name) ==
  LET d == LastIndexOf(name, ".")
  IN IF d > 0 /\ \E i \in 1..(d - 1) : name[i] # "."
     THEN SubSeq(name, 1, d - 1)
     ELSE name

\* ''.join(filter(str.isdigit, basename))
RECURSIVE FilterDigits(_)
FilterDigits(s) ==
  IF s = <<>> THEN <<>>
  ELSE IF IsDigit(s[1]) THEN <<s[1]>> \o FilterDigits(Tail(s))
  ELSE FilterDigits(Tail(s))

(***************************************************************************)
(* JSON values the code reads with d[key] or d.get(key): a key may be      *)
(* absent, and an identifier may be something other than an integer.       *)
(***************************************************************************)
Absent == [k |-> "absent", v |-> 0]
IntV(n) == [k |-> "int", v |-> n]
StrV == [k |-> "str", v |-> 0]

NoName == [k |-> "absent", v |-> <<>>]
Name(s) == [k |-> "str", v |-> s]

NoList == [k |-> "absent", v |-> <<>>]
List(s) == [k |-> "list", v |-> s]

\* the field original_pdf_text_layer of a region: unset, or set to a text
NoField == [set |-> FALSE, val |-> <<>>]
Field(t) == [set |-> TRUE, val |-> t]
EmptyText == <<>>

\* the result of a call: a value, or an exception raised
Ret(x) == [raised |-> FALSE, val |-> x]
Raise == [raised |-> TRUE, val |-> 0]

(***************************************************************************)
(* get_page_number_from_image_id(coco_data, image_id): the first image     *)
(* record whose id equals image_id decides.                                *)
(***************************************************************************)
RECURSIVE ScanImages(_, _)
ScanImages(images, image_id) ==
  IF images = <<>>
  THEN \* fallback after the loop: image_id - 1
       IF image_id.k = "int" THEN Ret(image_id.v - 1) ELSE Raise
  ELSE LET image == images[1]
       IN IF image.id.k = "absent" THEN Raise        \* image['id']: KeyError
          ELSE IF image.id # image_id THEN ScanImages(Tail(images), image_id)
          ELSE IF image.file_name.k = "absent" THEN Raise
          ELSE LET basename == SplitextRoot(Basename(image.file_name.v))
                   numbers == FilterDigits(basename)
               IN IF numbers # <<>> THEN Ret(IntOf(numbers) - 1)
                  ELSE IF image_id.k = "int" THEN Ret(image_id.v - 1)
                  ELSE Raise

get_page_number_from_image_id(coco_data, image_id) ==
  ScanImages(coco_data.images, image_id)

(***************************************************************************)
(* The Document.  doc.kind[p + 1] tells what the text query of page p      *)
(* does: "text" (returns text), "blank" (returns the empty string) or      *)
(* "bad" (raises).  Every page is PageW x PageH points.                    *)
(***************************************************************************)
PageKinds == {"text", "blank", "bad"}
PageW == 600
PageH == 800

page_count(doc) == Len(doc.kind)

\* pdf_doc[page_num]: PyMuPDF counts a negative page number from the end
LoadPage(doc, page_num) == page_num % page_count(doc)

\* page.get_text("text", clip=rect).strip() on page p
GetText(doc, p, rect) ==
  CASE doc.kind[p + 1] = "bad" -> Raise
    [] doc.kind[p + 1] = "blank" -> Ret(EmptyText)
    [] OTHER -> Ret(<<p>> \o rect)

(***************************************************************************)
(* extract_text_from_bbox(pdf_doc, page_num, bbox_coco).  The result also  *)
(* tells which page numbers were handed to pdf_doc[...] (read) and which   *)
(* rectangles were handed to page.get_text (clip).                         *)
(***************************************************************************)
\* the rectangle scaled by the page's width and height
extract_text_from_bbox_scaled(doc, page_num, bbox_coco) ==
  IF page_num >= page_count(doc)
  THEN [out |-> Ret(EmptyText), read |-> {}, clip |-> {}]
  ELSE LET p == LoadPage(doc, page_num)
       IN IF bbox_coco.k # "list" \/ Len(bbox_coco.v) # 4
          THEN [out |-> Raise, read |-> {page_num}, clip |-> {}]
          ELSE LET x == bbox_coco.v[1]
                   y == bbox_coco.v[2]
                   width == bbox_coco.v[3]
                   height == bbox_coco.v[4]
                   rect == <<(x * doc.rect.width) \div PageW,
                             (y * doc.rect.height) \div PageH,
                             ((x + width) * doc.rect.width) \div PageW,
                             ((y + height) * doc.rect.height) \div PageH>>
               IN [out |-> GetText(doc, p, rect), read |-> {page_num},
                   clip |-> {rect}]

extract_text_from_bbox(doc, page_num, bbox_coco) ==
  IF page_num >= page_count(doc)
  THEN [out |-> Ret(EmptyText), read |-> {}, clip |-> {}]
  ELSE LET p == LoadPage(doc, page_num)
       IN IF bbox_coco.k # "list" \/ Len(bbox_coco.v) # 4
          THEN [out |-> Raise, read |-> {page_num}, clip |-> {}]   \* x, y, width, height = ...
          ELSE LET x == bbox_coco.v[1]
                   y == bbox_coco.v[2]
                   width == bbox_coco.v[3]
                   height == bbox_coco.v[4]
                   rect == <<x, y, x + width, y + height>>
               IN [out |-> GetText(doc, p, rect), read |-> {page_num},
                   clip |-> {rect}]

(***************************************************************************)
(* The state of one run of main().                                         *)
(*   dialect         which of the two scripts runs ("A" or "B")            *)
(*   pc              where the run is: "main" (head of main's loop),       *)
(*                   "annots" (Dialect A's loop over the annotations),     *)
(*                   "pages" (Dialect B's loop over the page files),       *)
(*                   "shapes" (process_labelme_json's loop),               *)
(*                   "returned" (process_pdf_layout_pair has returned),    *)
(*                   "done" (main has returned), "crashed" (an exception   *)
(*                   left main)                                            *)
(*   nItems, itemIdx the PDF files of the batch and the one in work        *)
(*   success_count   main's counter;  results: what each pair returned     *)
(*   openDocs        the batch items whose Document is open                *)
(*   doc             the Document of the item in work                      *)
(*   mem, disk       the group (Dialect A) or page file (Dialect B) in     *)
(*                   work: in memory, and as stored                        *)
(*   idx, count      the loop position in mem's regions, and the counter   *)
(*                   updated_count / shapes_processed                      *)
(*   reads           the page numbers handed to pdf_doc[...] for this item *)
(*   written         the files of this item's group that were rewritten    *)
(*   page_json_files, fileIdx, total, failed, status                       *)
(*                   Dialect B: the page mapping, the position in it,      *)
(*                   total_shapes_processed, the files for which           *)
(*                   process_labelme_json returned -1, and what happened   *)
(*                   to the page file last taken up                        *)
(*   fnIn, fnOut     argument and result of a function applied on its own  *)
(*   firstRun        when the group or page file in work is processed a    *)
(*                   second time: what the first time left stored          *)
(***************************************************************************)
VARIABLES dialect, pc, nItems, itemIdx, success_count, results, openDocs,
          doc, mem, disk, idx, count, reads, written,
          page_json_files, fileIdx, total, failed, status, fnIn, fnOut,
          firstRun

mainVars == <<dialect, nItems, itemIdx, success_count, results>>
itemVars == <<openDocs, doc, mem, disk, idx, count, reads, written>>
pageVars == <<page_json_files, fileIdx, total, failed, status>>
fnVars == <<fnIn, fnOut>>
runVars == <<firstRun>>
vars == <<pc, mainVars, itemVars, pageVars, fnVars, runVars>>

NoDoc == [kind |-> <<>>]
NoData == [kind |-> "none"]
NoArg == <<>>

Docs == UNION {[kind : [1..n -> PageKinds]] : n \in 1..MaxPages}

\* no item in work: the locals of process_pdf_layout_pair do not exist
ItemIdle ==
  /\ doc = NoDoc /\ mem = NoData /\ disk = NoData /\ idx = 0 /\ count = 0
  /\ reads = {} /\ written = {}
  /\ page_json_files = <<>> /\ fileIdx = 0 /\ total = 0 /\ failed = {}
  /\ status = "none"
  /\ firstRun = NoData

FnIdle == fnIn = NoArg /\ fnOut = NoArg

Init ==
  /\ dialect \in {"A", "B"}
  /\ pc = "main"
  /\ nItems \in 1..MaxItems
  /\ itemIdx = 0
  /\ success_count = 0
  /\ results = <<>>
  /\ openDocs = {}
  /\ ItemIdle
  /\ FnIdle

(***************************************************************************)
(* Dialect A: the groups a batch item may hold.                            *)
(***************************************************************************)
Str_p0_jpg == <<"p", "0", ".", "j", "p", "g">>
Str_img_jpg == <<"i", "m", "g", ".", "j", "p", "g">>
Str_s2_p1_jpg == <<"s", "2", "/", "p", "1", ".", "j", "p", "g">>

Image(id, file_name) == [id |-> id, file_name |-> file_name]

ImageLists ==
  { <<>>,
    <<Image(IntV(1), Name(Str_s2_p1_jpg)), Image(IntV(2), Name(Str_img_jpg)),
      Image(IntV(3), Name(Str_p0_jpg))>>,
    <<Image(IntV(1), NoName), Image(Absent, Name(Str_img_jpg))>> }

Bbox1 == List(<<10, 20, 30, 40>>)
BboxShort == List(<<10, 20>>)

Annotation(hasId, image_id, bbox) ==
  [hasId |-> hasId, image_id |-> image_id, bbox |-> bbox, text |-> NoField]

AnnChoices ==
  { Annotation(TRUE, IntV(1), Bbox1), Annotation(TRUE, IntV(2), Bbox1),
    Annotation(TRUE, IntV(3), Bbox1), Annotation(TRUE, IntV(0), Bbox1),
    Annotation(TRUE, Absent, Bbox1), Annotation(TRUE, IntV(1), NoList),
    Annotation(TRUE, IntV(1), BboxShort), Annotation(FALSE, IntV(1), Bbox1) }

SeqsUpTo(S, n) == UNION {[1..m -> S] : m \in 0..n}

CocoName == <<"c", "o", "c", "o", ".", "j", "s", "o", "n">>

CocoGroup(images, annotations) ==
  [kind |-> "ok", images |-> images, annotations |-> annotations]

\* what json.load may find in the layout folder
CocoStored ==
  {[kind |-> "invalid"], [kind |-> "notdict"]}
    \cup {CocoGroup(i, a) : i \in ImageLists, a \in SeqsUpTo(AnnChoices, MaxAnn)}

\* process_pdf_layout_pair returns r
Return(r) ==
  /\ pc' = "returned"
  /\ results' = Append(results, r)

(***************************************************************************)
(* Dialect A, main's loop body up to the loop over the annotations:        *)
(* process_pdf_layout_pair checks the folder, finds and loads the JSON     *)
(* file and opens the PDF.                                                 *)
(***************************************************************************)
AStartItem ==
  /\ dialect = "A" /\ pc = "main" /\ itemIdx < nItems
  /\ itemIdx' = itemIdx + 1
  /\ \E folder \in BOOLEAN, found \in BOOLEAN, pdfOpens \in BOOLEAN,
        stored \in CocoStored, d \in Docs :
       IF ~folder \/ ~found
       THEN \* layout folder or JSON file not found
            /\ Return(FALSE)
            /\ UNCHANGED <<itemVars>>
       ELSE IF stored.kind = "invalid"
       THEN \* json.load raises
            /\ Return(FALSE)
            /\ disk' = stored
            /\ UNCHANGED <<openDocs, doc, mem, idx, count, reads, written>>
       ELSE IF ~pdfOpens
       THEN \* fitz.open raises
            /\ Return(FALSE)
            /\ disk' = stored /\ mem' = stored
            /\ UNCHANGED <<openDocs, doc, idx, count, reads, written>>
       ELSE /\ disk' = stored /\ mem' = stored
            /\ doc' = d
            /\ openDocs' = openDocs \cup {itemIdx'}
            /\ idx' = 1
            /\ IF stored.kind = "notdict"
               THEN \* coco_data.get: AttributeError leaves main
                    pc' = "crashed"
               ELSE pc' = "annots"
            /\ UNCHANGED <<results, count, reads, written>>
  /\ UNCHANGED <<dialect, nItems, success_count, pageVars, fnVars, runVars>>

\* the text added to what the field holds already
SetTextAppended(group, i, t) ==
  [group EXCEPT !.annotations[i].text = Field(@.val \o t)]

SetText(group, i, t) ==
  [group EXCEPT !.annotations[i].text = Field(t)]

(***************************************************************************)
(* Dialect A, one turn of the loop over the annotations (lines 113-134).   *)
(* long: the extracted text is longer than 50 characters.                  *)
(***************************************************************************)
AAnnotation ==
  /\ dialect = "A" /\ pc = "annots" /\ idx <= Len(mem.annotations)
  /\ LET annotation == mem.annotations[idx]
         resolved == get_page_number_from_image_id(mem, annotation.image_id)
     IN IF \/ annotation.image_id.k = "absent"
           \/ annotation.bbox.k = "absent"
           \/ resolved.raised
        THEN \* KeyError or TypeError outside the try block
             /\ pc' = "crashed"
             /\ UNCHANGED <<mem, idx, count, reads>>
        ELSE LET r == extract_text_from_bbox(doc, resolved.val, annotation.bbox)
             IN /\ reads' = reads \cup r.read
                /\ IF r.out.raised
                   THEN IF annotation.hasId
                        THEN /\ mem' = SetText(mem, idx, EmptyText)
                             /\ idx' = idx + 1
                             /\ UNCHANGED <<pc, count>>
                        ELSE \* the handler's message reads annotation['id']
                             /\ pc' = "crashed"
                             /\ UNCHANGED <<mem, idx, count>>
                   ELSE \E long \in {l \in BOOLEAN : l => r.out.val # EmptyText} :
                          /\ mem' = SetText(mem, idx, r.out.val)
                          /\ count' = count + 1
                          /\ IF long /\ ~annotation.hasId
                             THEN pc' = "crashed" /\ UNCHANGED idx
                             ELSE idx' = idx + 1 /\ UNCHANGED pc
  /\ UNCHANGED <<mainVars, openDocs, doc, disk, written, pageVars, fnVars, runVars>>

\* Dialect A, after the loop: close the document and save the group
AFinishItem ==
  /\ dialect = "A" /\ pc = "annots" /\ idx > Len(mem.annotations)
  /\ openDocs' = openDocs \ {itemIdx}
  /\ disk' = mem
  /\ written' = written \cup {CocoName}
  /\ Return(TRUE)
  /\ UNCHANGED <<dialect, nItems, itemIdx, success_count,
                 doc, mem, idx, count, reads, pageVars, fnVars, runVars>>

(***************************************************************************)
(* main: count the pair if it returned True and go to the next PDF file;   *)
(* the pair's locals are gone.                                             *)
(***************************************************************************)
MainCount ==
  /\ pc = "returned"
  /\ success_count' = IF results[Len(results)] THEN success_count + 1
                      ELSE success_count
  /\ pc' = "main"
  /\ doc' = NoDoc /\ mem' = NoData /\ disk' = NoData /\ idx' = 0 /\ count' = 0
  /\ reads' = {} /\ written' = {}
  /\ page_json_files' = <<>> /\ fileIdx' = 0 /\ total' = 0 /\ failed' = {}
  /\ status' = "none" /\ firstRun' = NoData
  /\ UNCHANGED <<dialect, nItems, itemIdx, results, openDocs, fnVars>>

\* main: every PDF file was taken up; print the summary and return
MainDone ==
  /\ pc = "main" /\ itemIdx = nItems
  /\ pc' = "done"
  /\ UNCHANGED <<mainVars, itemVars, pageVars, fnVars, runVars>>

(***************************************************************************)
(* Dialect B: exact fractions for the scaled coordinates (the code uses    *)
(* floats; rounding is not modelled).                                      *)
(***************************************************************************)
RECURSIVE GCD(_, _)
GCD(a, b) == IF b = 0 THEN a ELSE GCD(b, a % b)

Abs(n) == IF n < 0 THEN -n ELSE n

\* the fraction n / d (d # 0) in lowest terms, with a positive denominator
Frac(n, d) ==
  LET g == GCD(Abs(n), Abs(d))
      s == IF d < 0 THEN -1 ELSE 1
  IN <<(s * n) \div g, (s * d) \div g>>

Min(a, b) == IF a <= b THEN a ELSE b
Max(a, b) == IF a >= b THEN a ELSE b

\* the two corner points taken as they come, without min / max
ScaleRectAsGiven(labelme_points, image_width, image_height, pdf_rect) ==
  LET point1 == labelme_points[1]
      point2 == labelme_points[2]
  IN <<Frac(point1[1] * pdf_rect.width, image_width),
       Frac(point1[2] * pdf_rect.height, image_height),
       Frac(point2[1] * pdf_rect.width, image_width),
       Frac(point2[2] * pdf_rect.height, image_height)>>

\* lines 30-47: the clip rectangle of two corner points on a page whose
\* rectangle is pdf_rect; img * scale with scale = pdf size / image size
ScaleRect(labelme_points, image_width, image_height, pdf_rect) ==
  LET point1 == labelme_points[1]
      point2 == labelme_points[2]
      img_x0 == Min(point1[1], point2[1])
      img_y0 == Min(point1[2], point2[2])
      img_x1 == Max(point1[1], point2[1])
      img_y1 == Max(point1[2], point2[2])
  IN <<Frac(img_x0 * pdf_rect.width, image_width),
       Frac(img_y0 * pdf_rect.height, image_height),
       Frac(img_x1 * pdf_rect.width, image_width),
       Frac(img_y1 * pdf_rect.height, image_height)>>

\* the clip rectangle on a page of the Document (all its pages are PageW x PageH)
LabelmeRect(labelme_points, image_width, image_height) ==
  ScaleRect(labelme_points, image_width, image_height,
            [width |-> PageW, height |-> PageH])

(***************************************************************************)
(* extract_text_from_labelme_bbox(pdf_doc, page_num, labelme_points,       *)
(* image_width, image_height); called with two points or more and with     *)
(* image sizes other than 0.                                               *)
(***************************************************************************)
extract_text_from_labelme_bbox(d, page_num, labelme_points, image_width, image_height) ==
  IF page_num >= page_count(d) THEN [out |-> Ret(EmptyText), read |-> {}]
  ELSE LET p == LoadPage(d, page_num)
           rect == LabelmeRect(labelme_points, image_width, image_height)
       IN [out |-> GetText(d, p, rect), read |-> {page_num}]

(***************************************************************************)
(* Dialect B: the directory listings and page files a batch item may hold. *)
(***************************************************************************)
Str_page_0 == <<"p", "a", "g", "e", "_", "0", ".", "j", "s", "o", "n">>
Str_page_1 == <<"p", "a", "g", "e", "_", "1", ".", "j", "s", "o", "n">>
Str_page_2 == <<"p", "a", "g", "e", "_", "2", ".", "j", "s", "o", "n">>
Str_page_01 == <<"p", "a", "g", "e", "_", "0", "1", ".", "j", "s", "o", "n">>
Str_notes == <<"n", "o", "t", "e", "s", ".", "j", "s", "o", "n">>

FileNames == {Str_page_0, Str_page_1, Str_page_2, Str_page_01, Str_notes}

\* the orders in which os.listdir may give at most n of the names of S
ListingsOf(S, n) ==
  {l \in SeqsUpTo(S, n) : \A i, j \in 1..Len(l) : i # j => l[i] # l[j]}

ImageW == 1200
ImageH == 1600

Shape(isObject, points) ==
  [isObject |-> isObject, points |-> points, text |-> NoField]

ShapeChoices ==
  { Shape(TRUE, List(<< <<100, 100>>, <<300, 300>> >>)),
    Shape(TRUE, List(<< <<100, 100>> >>)),
    Shape(FALSE, NoList) }

PageFile(hasShapes, imageWidth, imageHeight, shapes) ==
  [kind |-> "ok", hasShapes |-> hasShapes, imageWidth |-> imageWidth,
   imageHeight |-> imageHeight, shapes |-> shapes]

\* what a page file may hold
PageStored ==
  {[kind |-> "invalid"], PageFile(FALSE, IntV(ImageW), IntV(ImageH), <<>>)}
    \cup {PageFile(TRUE, wh[1], wh[2], sh) :
            wh \in {<<Absent, IntV(ImageH)>>, <<IntV(0), IntV(ImageH)>>,
                    <<IntV(ImageW), IntV(0)>>, <<IntV(ImageW), IntV(ImageH)>>},
            sh \in SeqsUpTo(ShapeChoices, MaxShapes)}

\* data.get(key, 0)
GetOr0(value) == IF value.k = "absent" THEN 0 ELSE value.v

(***************************************************************************)
(* Dialect B, main's loop body up to the loop over the page files:         *)
(* process_pdf_layout_pair checks the folders, lists the page files and    *)
(* opens the PDF (lines 166-218).                                          *)
(***************************************************************************)
BStartItem ==
  /\ dialect = "B" /\ pc = "main" /\ itemIdx < nItems
  /\ itemIdx' = itemIdx + 1
  /\ \E folder \in BOOLEAN, pdfOpens \in BOOLEAN, d \in Docs,
        images_dir \in [exists : BOOLEAN, files : ListingsOf(FileNames, MaxFiles)] :
       LET files == get_page_json_files(images_dir)
       IN IF ~folder \/ ~images_dir.exists \/ files = <<>> \/ ~pdfOpens
          THEN /\ Return(FALSE)
               /\ UNCHANGED <<itemVars, pageVars>>
          ELSE /\ doc' = d
               /\ openDocs' = openDocs \cup {itemIdx'}
               /\ page_json_files' = files
               /\ fileIdx' = 1
               /\ total' = 0
               /\ pc' = "pages"
               /\ UNCHANGED <<results, mem, disk, idx, count, reads, written,
                              failed, status>>
  /\ UNCHANGED <<dialect, nItems, success_count, fnVars, runVars>>

\* process_labelme_json returns to the loop over the page files
NextFile(what) ==
  /\ status' = what
  /\ fileIdx' = fileIdx + 1
  /\ pc' = "pages"

(***************************************************************************)
(* Dialect B, one turn of the loop over the page files (lines 220-231) up  *)
(* to process_labelme_json's loop over the shapes (lines 98-118).          *)
(* stored is what the page file holds: when the file is processed for the  *)
(* second time, what the first time left.                                  *)
(***************************************************************************)
BNextPage ==
  /\ dialect = "B" /\ pc = "pages" /\ fileIdx <= Len(page_json_files)
  /\ LET page_num_1based == page_json_files[fileIdx][1]
         json_path == page_json_files[fileIdx][2]
         page_num_0based == page_num_1based - 1
     IN \E stored \in (IF status = "rerun" THEN {disk} ELSE PageStored) :
          /\ disk' = stored
          /\ firstRun' = IF status = "rerun" THEN firstRun ELSE NoData
          /\ count' = 0
          /\ IF page_num_0based >= page_count(doc)
             THEN \* continue
                  /\ NextFile("skipped")
                  /\ mem' = NoData
                  /\ UNCHANGED failed
             ELSE IF stored.kind = "invalid"
             THEN \* json.load raises: return -1
                  /\ NextFile("failed")
                  /\ mem' = NoData
                  /\ failed' = failed \cup {json_path}
             ELSE IF ~stored.hasShapes
             THEN \* return 0
                  /\ NextFile("noshapes")
                  /\ mem' = stored
                  /\ UNCHANGED failed
             ELSE IF GetOr0(stored.imageWidth) = 0 \/ GetOr0(stored.imageHeight) = 0
             THEN \* return 0
                  /\ NextFile("nodims")
                  /\ mem' = stored
                  /\ UNCHANGED failed
             ELSE /\ mem' = stored
                  /\ status' = "open"
                  /\ pc' = "shapes"
                  /\ UNCHANGED <<fileIdx, failed>>
          /\ idx' = IF pc' = "shapes" THEN 1 ELSE 0
  /\ UNCHANGED <<mainVars, openDocs, doc, reads, written, page_json_files,
                 total, fnVars>>

SetShapeText(data, i, t) == [data EXCEPT !.shapes[i].text = Field(t)]

(***************************************************************************)
(* Dialect B, one turn of process_labelme_json's loop over the shapes      *)
(* (lines 121-145).  A shape that is not an object makes 'points' in shape *)
(* raise outside the inner try: the outer handler returns -1.              *)
(***************************************************************************)
BShape ==
  /\ dialect = "B" /\ pc = "shapes" /\ idx <= Len(mem.shapes)
  /\ LET shape == mem.shapes[idx]
         json_path == page_json_files[fileIdx][2]
         page_num == page_json_files[fileIdx][1] - 1
     IN IF ~shape.isObject
        THEN /\ NextFile("failed")
             /\ failed' = failed \cup {json_path}
             /\ UNCHANGED <<mem, idx, count, reads>>
        ELSE IF shape.points.k = "list" /\ Len(shape.points.v) >= 2
        THEN LET r == extract_text_from_labelme_bbox(doc, page_num, shape.points.v,
                        mem.imageWidth.v, mem.imageHeight.v)
             IN /\ reads' = reads \cup r.read
                /\ IF r.out.raised
                   THEN /\ mem' = SetShapeText(mem, idx, EmptyText)
                        /\ UNCHANGED count
                   ELSE /\ mem' = SetShapeText(mem, idx, r.out.val)
                        /\ count' = count + 1
                /\ idx' = idx + 1
                /\ UNCHANGED <<pc, fileIdx, failed, status>>
        ELSE /\ mem' = SetShapeText(mem, idx, EmptyText)
             /\ idx' = idx + 1
             /\ UNCHANGED <<pc, fileIdx, failed, status, count, reads>>
  /\ UNCHANGED <<mainVars, openDocs, doc, disk, written, page_json_files,
                 total, fnVars, runVars>>

(***************************************************************************)
(* Dialect B, after the loop over the shapes: process_labelme_json saves   *)
(* the page file and returns shapes_processed (lines 147-154), which the   *)
(* caller adds to its total (lines 232-233).                               *)
(***************************************************************************)
BSaveFile ==
  /\ dialect = "B" /\ pc = "shapes" /\ idx > Len(mem.shapes)
  /\ disk' = mem
  /\ written' = written \cup {page_json_files[fileIdx][2]}
  /\ total' = IF count > 0 THEN total + count ELSE total
  /\ NextFile("saved")
  /\ UNCHANGED <<mainVars, openDocs, doc, mem, idx, count, reads,
                 page_json_files, failed, fnVars, runVars>>

\* Dialect B, after the loop over the page files: close the PDF, return True
BFinishItem ==
  /\ dialect = "B" /\ pc = "pages" /\ fileIdx > Len(page_json_files)
  /\ openDocs' = openDocs \ {itemIdx}
  /\ Return(TRUE)
  /\ UNCHANGED <<dialect, nItems, itemIdx, success_count,
                 doc, mem, disk, idx, count, reads, written, pageVars, fnVars, runVars>>

Next ==
  \/ AStartItem \/ AAnnotation \/ AFinishItem
  \/ BStartItem \/ BNextPage \/ BShape \/ BSaveFile \/ BFinishItem
  \/ MainCount \/ MainDone

Spec == Init /\ [][Next]_vars

\* a run of the Dialect A script alone
InitA == Init /\ dialect = "A"
NextA == AStartItem \/ AAnnotation \/ AFinishItem \/ MainCount \/ MainDone
SpecA == InitA /\ [][NextA]_vars

\* a run of the Dialect B script alone
InitB == Init /\ dialect = "B"
NextB ==
  \/ BStartItem \/ BNextPage \/ BShape \/ BSaveFile \/ BFinishItem
  \/ MainCount \/ MainDone
SpecB == InitB /\ [][NextB]_vars

(***************************************************************************)
(* The two page resolvers applied on their own: the argument is drawn in   *)
(* the initial state (pc = "call") and one step applies the function       *)
(* (pc = "ret").  No pipeline runs.                                        *)
(***************************************************************************)
FnInit ==
  /\ dialect = "none" /\ pc = "call"
  /\ nItems = 0 /\ itemIdx = 0 /\ success_count = 0 /\ results = <<>>
  /\ openDocs = {}
  /\ ItemIdle
  /\ fnOut = NoArg

Str_page_10 == <<"p", "a", "g", "e", "_", "1", "0", ".", "j", "s", "o", "n">>
Str_page_02 == <<"p", "a", "g", "e", "_", "0", "2", ".", "j", "s", "o", "n">>
Str_PAGE_3 == <<"P", "A", "G", "E", "_", "3", ".", "J", "S", "O", "N">>
Str_page_x == <<"p", "a", "g", "e", "_", "x", ".", "j", "s", "o", "n">>
Str_page_4_txt == <<"p", "a", "g", "e", "_", "4", ".", "t", "x", "t">>
Str_xpage_5 == <<"x", "p", "a", "g", "e", "_", "5", ".", "j", "s", "o", "n">>
Str_page_1_json_json ==
  <<"p", "a", "g", "e", "_", "1", ".", "j", "s", "o", "n", ".", "j", "s", "o", "n">>

DirNames ==
  {Str_page_1, Str_page_2, Str_page_10, Str_page_02, Str_PAGE_3, Str_page_x,
   Str_page_4_txt, Str_xpage_5, Str_page_1_json_json, Str_notes}

InitFiles ==
  /\ FnInit
  /\ fnIn \in [exists : BOOLEAN, files : ListingsOf(DirNames, MaxListing)]
  /\ fnIn.exists \/ fnIn.files = <<>>

\* a call of get_page_json_files
ListPageFiles ==
  /\ pc = "call"
  /\ fnOut' = get_page_json_files(fnIn)
  /\ pc' = "ret"
  /\ UNCHANGED <<mainVars, itemVars, pageVars, runVars, fnIn>>

SpecFiles == InitFiles /\ [][ListPageFiles]_vars

Str_page_001_jpg == <<"p", "a", "g", "e", "_", "0", "0", "1", ".", "j", "p", "g">>
Str_a1b2_jpg == <<"a", "1", "b", "2", ".", "j", "p", "g">>

ImageIds == {IntV(1), IntV(2), Absent}
ImageNames ==
  {Name(Str_page_001_jpg), Name(Str_a1b2_jpg), Name(Str_s2_p1_jpg),
   Name(Str_img_jpg), Name(Str_p0_jpg), NoName}
ImageRecords == {Image(i, n) : i \in ImageIds, n \in ImageNames}

InitResolver ==
  /\ FnInit
  /\ fnIn \in [images : SeqsUpTo(ImageRecords, MaxImages),
               image_id : {IntV(0), IntV(1), IntV(2), StrV}]

\* a call of get_page_number_from_image_id
ResolvePage ==
  /\ pc = "call"
  /\ fnOut' = get_page_number_from_image_id(fnIn, fnIn.image_id)
  /\ pc' = "ret"
  /\ UNCHANGED <<mainVars, itemVars, pageVars, runVars, fnIn>>

SpecResolver == InitResolver /\ [][ResolvePage]_vars

(***************************************************************************)
(* The rectangle computation of extract_text_from_labelme_bbox on its own: *)
(* two corner points, the image size of the page file and the rectangle of *)
(* the page.                                                               *)
(***************************************************************************)
Coords == {-100, 100, 300}
Points == Coords \X Coords
ImageSizes == {-1200, 1200, 1600}
PageSizes == {600, 800}

InitRect ==
  /\ FnInit
  /\ fnIn \in [labelme_points : Points \X Points,
               image_width : ImageSizes, image_height : ImageSizes,
               pdf_rect : [width : PageSizes, height : PageSizes]]

\* lines 26-47 of extract_text_from_labelme_bbox
MapRect ==
  /\ pc = "call"
  /\ fnOut' = ScaleRect(fnIn.labelme_points, fnIn.image_width,
                        fnIn.image_height, fnIn.pdf_rect)
  /\ pc' = "ret"
  /\ UNCHANGED <<mainVars, itemVars, pageVars, runVars, fnIn>>

SpecRect == InitRect /\ [][MapRect]_vars

(***************************************************************************)
(* extract_text_from_bbox on its own: a Document whose pages have the      *)
(* rectangle doc.rect, a page number and the bbox of an annotation.        *)
(***************************************************************************)
BboxValues ==
  {List(<<x, y, w, h>>) : x \in {0, 10}, y \in {0, 20}, w \in {0, 30}, h \in {-5, 40}}
    \cup {BboxShort, NoList}

SizedDocs ==
  {[kind |-> d.kind, rect |-> r] :
     d \in Docs, r \in [width : PageSizes, height : PageSizes]}

InitBbox ==
  /\ FnInit
  /\ fnIn \in [doc : SizedDocs, page_num : -1..MaxPages, bbox : BboxValues]

\* a call of extract_text_from_bbox
ExtractBbox ==
  /\ pc = "call"
  /\ fnOut' = extract_text_from_bbox(fnIn.doc, fnIn.page_num, fnIn.bbox)
  /\ pc' = "ret"
  /\ UNCHANGED <<mainVars, itemVars, pageVars, runVars, fnIn>>

SpecBbox == InitBbox /\ [][ExtractBbox]_vars

(***************************************************************************)
(* layout_json_label_corrector.py: the label correction of one LabelMe     *)
(* file.  A mapping is a function from the bad labels to the good ones.    *)
(***************************************************************************)
MaxLabels == 2

labels_bad ==
  <<"folyoiratcim", "kep", "szovegdoboz", "kepalairas", "oldalfejlec",
    "tablazatfejlec", "tablazatelem", "rovatcim">>

labels_good ==
  <<"tablazatelem", "tablazatfejlec", "oldalfejlec", "folyoiratcim",
    "rovatcim", "kep", "kepalairas", "szovegdoboz">>

NoMapping == [none |-> TRUE, mapping |-> <<>>]
Mapping(f) == [none |-> FALSE, mapping |-> f]

\* lines 45-46: mapping[bad[i]] = good[i] for i, i + 1, ...
RECURSIVE FillMapping(_, _, _, _)
FillMapping(bad, good, i, mapping) ==
  IF i > Len(bad) THEN mapping
  ELSE FillMapping(bad, good, i + 1,
         [l \in (DOMAIN mapping) \cup {bad[i]} |->
            IF l = bad[i] THEN good[i] ELSE mapping[l]])

\* create_label_mapping() for the lists bad and good
create_label_mapping(bad, good) ==
  IF Len(bad) # Len(good) THEN NoMapping
  ELSE Mapping(FillMapping(bad, good, 1, [l \in {} |-> l]))

LabelShape(isObject, hasLabel, label) ==
  [isObject |-> isObject, hasLabel |-> hasLabel, label |-> label]

LabelFile(hasShapes, shapes) ==
  [kind |-> "ok", hasShapes |-> hasShapes, shapes |-> shapes]

\* a corrected label is looked up once more
RECURSIVE CorrectShapesChained(_, _, _, _)
CorrectShapesChained(shapes, i, label_mapping, corrections_made) ==
  IF i > Len(shapes)
  THEN [raised |-> FALSE, shapes |-> shapes, corrections_made |-> corrections_made]
  ELSE LET shape == shapes[i]
       IN IF ~shape.isObject
          THEN [raised |-> TRUE, shapes |-> shapes, corrections_made |-> corrections_made]
          ELSE IF shape.hasLabel /\ shape.label \in DOMAIN label_mapping
          THEN LET new_label == label_mapping[shape.label]
                   again == IF new_label \in DOMAIN label_mapping
                            THEN label_mapping[new_label] ELSE new_label
               IN CorrectShapesChained([shapes EXCEPT ![i].label = again], i + 1,
                                       label_mapping, corrections_made + 1)
          ELSE CorrectShapesChained(shapes, i + 1, label_mapping, corrections_made)

\* lines 76-83: the loop over the shapes from shape i on; 'label' in shape
\* raises for a shape that is not an object
RECURSIVE CorrectShapes(_, _, _, _)
CorrectShapes(shapes, i, label_mapping, corrections_made) ==
  IF i > Len(shapes)
  THEN [raised |-> FALSE, shapes |-> shapes, corrections_made |-> corrections_made]
  ELSE LET shape == shapes[i]
       IN IF ~shape.isObject
          THEN [raised |-> TRUE, shapes |-> shapes, corrections_made |-> corrections_made]
          ELSE IF shape.hasLabel /\ shape.label \in DOMAIN label_mapping
          THEN LET original_label == shape.label
                   new_label == label_mapping[original_label]
               IN CorrectShapes([shapes EXCEPT ![i].label = new_label], i + 1,
                                label_mapping, corrections_made + 1)
          ELSE CorrectShapes(shapes, i + 1, label_mapping, corrections_made)

(***************************************************************************)
(* correct_labels_in_json(json_path, label_mapping) on a file that holds   *)
(* data: what it returns and what the file holds afterwards.               *)
(***************************************************************************)
correct_labels_in_json(data, label_mapping) ==
  IF data.kind = "invalid" THEN [ret |-> -1, disk |-> data]
  ELSE IF ~data.hasShapes THEN [ret |-> 0, disk |-> data]
  ELSE LET r == CorrectShapes(data.shapes, 1, label_mapping, 0)
       IN IF r.raised THEN [ret |-> -1, disk |-> data]
          ELSE IF r.corrections_made > 0
          THEN [ret |-> r.corrections_made,
                disk |-> [data EXCEPT !.shapes = r.shapes]]
          ELSE [ret |-> r.corrections_made, disk |-> data]

Labels == {"folyoiratcim", "tablazatelem", "kepalairas"}

LabelShapes ==
  {LabelShape(TRUE, TRUE, l) : l \in Labels}
    \cup {LabelShape(TRUE, FALSE, ""), LabelShape(FALSE, FALSE, "")}

LabelFiles ==
  {[kind |-> "invalid"], LabelFile(FALSE, <<>>)}
    \cup {LabelFile(TRUE, sh) : sh \in SeqsUpTo(LabelShapes, MaxShapes)}

LabelLists ==
  {<<labels_bad, labels_good>>}
    \cup (SeqsUpTo(Labels, MaxLabels) \X SeqsUpTo(Labels, MaxLabels))

InitLabels ==
  /\ FnInit
  /\ fnIn \in [lists : LabelLists, data : LabelFiles]

\* main (lines 171-180) for one JSON file: no file is processed without a
\* mapping or with an empty one
CorrectLabels ==
  /\ pc = "call"
  /\ LET label_mapping == create_label_mapping(fnIn.lists[1], fnIn.lists[2])
     IN fnOut' =
          IF label_mapping.none \/ DOMAIN label_mapping.mapping = {}
          THEN [ran |-> FALSE, ret |-> 1, disk |-> fnIn.data]
          ELSE LET r == correct_labels_in_json(fnIn.data, label_mapping.mapping)
               IN [ran |-> TRUE, ret |-> r.ret, disk |-> r.disk]
  /\ pc' = "ret"
  /\ UNCHANGED <<mainVars, itemVars, pageVars, runVars, fnIn>>

SpecLabels == InitLabels /\ [][CorrectLabels]_vars

(***************************************************************************)
(* The pipeline run a second time on what it has augmented, against the    *)
(* same Document.                                                          *)
(* Dialect A: process_pdf_layout_pair is called again for the item that    *)
(* returned True; the folder, the JSON file and the PDF are as before, so  *)
(* lines 73-111 load the stored group and open the same Document.          *)
(***************************************************************************)
ARerun ==
  /\ dialect = "A" /\ pc = "returned" /\ results[Len(results)]
  /\ firstRun = NoData
  /\ firstRun' = disk
  /\ mem' = disk
  /\ openDocs' = openDocs \cup {itemIdx}
  /\ idx' = 1 /\ count' = 0 /\ reads' = {} /\ written' = {}
  /\ pc' = "annots"
  /\ UNCHANGED <<mainVars, doc, disk, pageVars, fnVars>>

(***************************************************************************)
(* Dialect B: the page files of a group are processed one by one, each     *)
(* from its own content and its own page of the Document, so the second    *)
(* run over a page file is taken right after the first: the loop over the  *)
(* page files (lines 220-231) takes up the same mapping again.  The        *)
(* counter total_shapes_processed of the second run is not kept apart.     *)
(***************************************************************************)
BRerunFile ==
  /\ dialect = "B" /\ pc = "pages" /\ fileIdx >= 2
  /\ status \in {"saved", "failed", "skipped", "noshapes", "nodims"}
  /\ firstRun = NoData
  /\ firstRun' = disk
  /\ fileIdx' = fileIdx - 1
  /\ status' = "rerun"
  /\ UNCHANGED <<pc, mainVars, itemVars, page_json_files, total, failed, fnVars>>

\* one PDF file, processed twice
InitTwice == Init /\ nItems = 1

NextTwice == Next \/ ARerun \/ BRerunFile

SpecTwice == InitTwice /\ [][NextTwice]_vars

(***************************************************************************)
(* Properties.                                                             *)
(***************************************************************************)
Range(f) == {f[i] : i \in DOMAIN f}

LastResult == results[Len(results)]

\* the annotation at idx has its keys and its page, and the text query of
\* that page raises
AQueryRaises ==
  /\ dialect = "A" /\ idx \in 1..Len(mem.annotations)
  /\ LET annotation == mem.annotations[idx]
         resolved == get_page_number_from_image_id(mem, annotation.image_id)
     IN /\ annotation.image_id.k # "absent"
        /\ annotation.bbox.k = "list" /\ Len(annotation.bbox.v) = 4
        /\ ~resolved.raised
        /\ resolved.val < page_count(doc)
        /\ doc.kind[LoadPage(doc, resolved.val) + 1] = "bad"

\* the shape at idx has two points and the text query of the file's page raises
BQueryRaises ==
  /\ dialect = "B" /\ idx \in 1..Len(mem.shapes)
  /\ LET shape == mem.shapes[idx]
         page_num == page_json_files[fileIdx][1] - 1
     IN /\ shape.isObject
        /\ shape.points.k = "list" /\ Len(shape.points.v) >= 2
        /\ page_num < page_count(doc)
        /\ doc.kind[LoadPage(doc, page_num) + 1] = "bad"

RegionText(group, i) ==
  IF dialect = "A" THEN group.annotations[i].text ELSE group.shapes[i].text

\* the shapes of a stored page file that are objects all carry the empty text
AllShapesTaggedEmpty(file) ==
  file.kind = "ok" =>
    \A i \in 1..Len(file.shapes) :
      file.shapes[i].isObject => file.shapes[i].text = Field(EmptyText)

GroupFiles == {page_json_files[i][2] : i \in 1..Len(page_json_files)}

(***************************************************************************)
(* C1.  A fault on one annotation never aborts the run: no exception       *)
(* raised while an annotation of a loaded group is processed leaves main,  *)
(* so the remaining regions and batch items are still taken up.            *)
(* Fails on the code: annotation['image_id'] and annotation['bbox'] (lines *)
(* 117-118) and the page resolver (line 121) are outside the try block,    *)
(* and main (lines 185-191) has no handler.                                *)
(***************************************************************************)
C1_AnnotationFaultNeverAborts ==
  ~(pc = "crashed" /\ mem.kind = "ok" /\ idx \in 1..Len(mem.annotations))

(***************************************************************************)
(* C2.  A Document that was opened is closed on every exit path of its     *)
(* batch item, before the next item's Document is opened: outside the      *)
(* loops of process_pdf_layout_pair no Document is open, and never two.    *)
(* Fails on the code: Dialect A has no finally / with around its loop, so  *)
(* an exception leaving the loop skips pdf_doc.close() (line 136).         *)
(***************************************************************************)
C2_DocumentClosedOnEveryExit ==
  /\ Cardinality(openDocs) <= 1
  /\ pc \in {"main", "returned", "done", "crashed"} => openDocs = {}

(***************************************************************************)
(* C3.  A group is never partially persisted: when the pair returns,       *)
(* either every file of the group was written back or none was.            *)
(* Fails on the code: Dialect B saves each page file on its own (line 148) *)
(* and goes on after a page file that failed or was skipped.               *)
(***************************************************************************)
C3_GroupPersistedAsAWhole ==
  pc = "returned" =>
    \/ written = {}
    \/ written = (IF dialect = "A" THEN {CocoName} ELSE GroupFiles)

(***************************************************************************)
(* C4.  Every region whose resolved page index is >= the page count ends   *)
(* with original_pdf_text_layer = "": in Dialect A every such annotation   *)
(* of a saved group, in Dialect B every shape of a page file page_<N>.json *)
(* with N - 1 >= page count.                                               *)
(* Fails on the code: Dialect B skips such a file (lines 226-229) without  *)
(* touching its shapes.                                                    *)
(***************************************************************************)
C4_OutOfRangeRegionsTaggedEmpty ==
  /\ (dialect = "A" /\ pc = "returned" /\ LastResult) =>
       \A i \in 1..Len(disk.annotations) :
         LET resolved == get_page_number_from_image_id(disk, disk.annotations[i].image_id)
         IN resolved.val >= page_count(doc) =>
              disk.annotations[i].text = Field(EmptyText)
  /\ (dialect = "B" /\ status = "skipped") => AllShapesTaggedEmpty(disk)

(***************************************************************************)
(* C5.  The page text query is only ever issued with a page index in       *)
(* [0, pageCount): every page number handed to pdf_doc[...] is in range.   *)
(* Fails on the code: both extractors test page_num >= page_count only     *)
(* (line 58; lines 23 and 226 of Dialect B), so a negative page number     *)
(* reaches pdf_doc[page_num].                                              *)
(***************************************************************************)
C5_PageIndexInRange ==
  \A n \in reads : 0 <= n /\ n < page_count(doc)

(***************************************************************************)
(* C6.  For a Dialect B page file whose imageWidth or imageHeight is 0 or  *)
(* missing, every shape ends with original_pdf_text_layer = "".            *)
(* Fails on the code: process_labelme_json returns 0 (lines 113-116)       *)
(* before its loop over the shapes and without saving.                     *)
(***************************************************************************)
C6_ZeroImageSizeTaggedEmpty ==
  (dialect = "B" /\ status = "nodims") => AllShapesTaggedEmpty(disk)

(***************************************************************************)
(* C7.  When the text query for a region raises, the region gets           *)
(* original_pdf_text_layer = "", nothing propagates, and the loop goes on  *)
(* with the next region.                                                   *)
(* Fails on the code: Dialect A's handler (line 133) formats               *)
(* annotation['id']; for an annotation without 'id' the handler itself     *)
(* raises KeyError, which leaves main.                                     *)
(***************************************************************************)
C7_QueryFailureAbsorbed ==
  [][(pc \in {"annots", "shapes"} /\ (AQueryRaises \/ BQueryRaises)) =>
       /\ pc' = pc
       /\ idx' = idx + 1
       /\ RegionText(mem', idx) = Field(EmptyText)]_vars

(***************************************************************************)
(* C8.  A batch item whose group storage is malformed (a file of the group *)
(* that does not parse or breaks the schema) is reported as failed, and    *)
(* nothing of the group is written.                                        *)
(* Fails on the code: Dialect B's process_pdf_layout_pair ignores the -1   *)
(* of process_labelme_json (lines 231-233) and returns True (line 240),    *)
(* with the other page files rewritten.                                    *)
(***************************************************************************)
C8_MalformedGroupReportedFailed ==
  (/\ pc = "returned"
   /\ \/ failed # {}
      \/ dialect = "A" /\ disk.kind = "invalid")
    => (~LastResult /\ written = {})

\* page_<N>.json and nothing else, in any letter case
IsPageName(filename) ==
  LET low == Lower(filename)
      e == DigitRunEnd(filename, 6)
  IN /\ StartsWithAt(low, 1, PagePrefix)
     /\ e >= 6
     /\ SubSeq(low, e + 1, Len(low)) = DotJson

PageNumberOf(filename) == IntOf(SubSeq(filename, 6, DigitRunEnd(filename, 6)))

(***************************************************************************)
(* C9.  get_page_json_files returns the (N, path) pairs of exactly the     *)
(* files named page_<N>.json (in any letter case), all other files         *)
(* discarded, in ascending order of the integer N.                         *)
(* Fails on the code: re.match (line 73) anchors the pattern at the start  *)
(* of the name only, so page_1.json.json is taken as page 1.               *)
(***************************************************************************)
C9_PageFilesExactAndSorted ==
  pc = "ret" =>
    /\ {fnOut[i][2] : i \in 1..Len(fnOut)} =
         {f \in Range(fnIn.files) : IsPageName(f)}
    /\ Len(fnOut) = Cardinality({f \in Range(fnIn.files) : IsPageName(f)})
    /\ \A i \in 1..Len(fnOut) : fnOut[i][1] = PageNumberOf(fnOut[i][2])
    /\ \A i, j \in 1..Len(fnOut) : i < j => fnOut[i][1] <= fnOut[j][1]

\* the maximal runs of digits of s
DigitRuns(s) ==
  {SubSeq(s, i, j) : <<i, j>> \in
     {ij \in (1..Len(s)) \X (1..Len(s)) :
        /\ ij[1] <= ij[2]
        /\ \A k \in ij[1]..ij[2] : IsDigit(s[k])
        /\ ij[1] = 1 \/ ~IsDigit(s[ij[1] - 1])
        /\ ij[2] = Len(s) \/ ~IsDigit(s[ij[2] + 1])}}

\* the arguments are as the schema has them: records with id and file_name,
\* an integer image_id
ResolverArgsWellFormed ==
  /\ fnIn.image_id.k = "int"
  /\ \A i \in 1..Len(fnIn.images) :
       fnIn.images[i].id.k = "int" /\ fnIn.images[i].file_name.k = "str"

(***************************************************************************)
(* C10.  For an image_id that has an image record,                         *)
(* get_page_number_from_image_id returns (the value of one maximal         *)
(* contiguous run of digits of the file name's base name) - 1 when the     *)
(* base name has a digit, and image_id - 1 when it has none or when no     *)
(* record has that id.                                                     *)
(* Fails on the code: line 34 joins all the digits of the base name, so    *)
(* a1b2.jpg gives 12 - 1.                                                  *)
(***************************************************************************)
C10_PageNumberFromOneDigitRun ==
  (pc = "ret" /\ ResolverArgsWellFormed) =>
    LET hits == {i \in 1..Len(fnIn.images) : fnIn.images[i].id = fnIn.image_id}
    IN /\ ~fnOut.raised
       /\ IF hits = {} THEN fnOut.val = fnIn.image_id.v - 1
          ELSE \E i \in hits :
                 LET basename == SplitextRoot(Basename(fnIn.images[i].file_name.v))
                 IN IF DigitRuns(basename) = {}
                    THEN fnOut.val = fnIn.image_id.v - 1
                    ELSE \E run \in DigitRuns(basename) : fnOut.val = IntOf(run) - 1

(***************************************************************************)
(* C11.  get_page_number_from_image_id never raises: for every image list  *)
(* (records lacking 'id' or 'file_name' included, the empty list included) *)
(* and every image_id value (a non-integer included) it returns a page     *)
(* number.                                                                 *)
(* Fails on the code: image['id'] (line 27) and image['file_name'] (line   *)
(* 28) raise KeyError on a record without the key, and image_id - 1 (lines *)
(* 40 and 43) raises TypeError on a string.                                *)
(***************************************************************************)
C11_ResolverNeverRaises ==
  pc = "ret" => ~fnOut.raised

\* a <= b and a = n / d for fractions with positive denominators
RatLeq(a, b) == a[1] * b[2] <= b[1] * a[2]
RatIs(a, n, d) == a[2] > 0 /\ a[1] * d = n * a[2]

\* the rectangle is (minX*pw/iw, minY*ph/ih, maxX*pw/iw, maxY*ph/ih), not
\* flipped, with x0 <= x1 and y0 <= y1
RectScaledAndOrdered ==
  LET p1 == fnIn.labelme_points[1]
      p2 == fnIn.labelme_points[2]
      iw == fnIn.image_width
      ih == fnIn.image_height
      pw == fnIn.pdf_rect.width
      ph == fnIn.pdf_rect.height
      minX == IF p1[1] <= p2[1] THEN p1[1] ELSE p2[1]
      maxX == IF p1[1] <= p2[1] THEN p2[1] ELSE p1[1]
      minY == IF p1[2] <= p2[2] THEN p1[2] ELSE p2[2]
      maxY == IF p1[2] <= p2[2] THEN p2[2] ELSE p1[2]
  IN /\ RatIs(fnOut[1], minX * pw, iw)
     /\ RatIs(fnOut[2], minY * ph, ih)
     /\ RatIs(fnOut[3], maxX * pw, iw)
     /\ RatIs(fnOut[4], maxY * ph, ih)
     /\ RatLeq(fnOut[1], fnOut[3])
     /\ RatLeq(fnOut[2], fnOut[4])

\* page 600x800, image 1200x1600, points [[100,100],[300,300]] in either order
RectExampleInput ==
  /\ fnIn.labelme_points \in {<<<<100, 100>>, <<300, 300>>>>,
                              <<<<300, 300>>, <<100, 100>>>>}
  /\ fnIn.image_width = 1200 /\ fnIn.image_height = 1600
  /\ fnIn.pdf_rect = [width |-> 600, height |-> 800]

RectExampleOutput == fnOut = <<<<50, 1>>, <<50, 1>>, <<150, 1>>, <<150, 1>>>>

(***************************************************************************)
(* C12 as stated.  For every two corner points, every non-zero image size  *)
(* and every page size the Dialect B rectangle is (minX*pw/iw, minY*ph/ih, *)
(* maxX*pw/iw, maxY*ph/ih), so x0 <= x1 and y0 <= y1.                      *)
(* Fails for a negative image size, which is non-zero and passes the test  *)
(* of lines 113-116: the scale is negative and min * scale > max * scale.  *)
(***************************************************************************)
C12_RectForNonZeroImageSize ==
  (pc = "ret" /\ fnIn.image_width # 0 /\ fnIn.image_height # 0) =>
    RectScaledAndOrdered

(***************************************************************************)
(* C12.  For every two corner points (in either corner order), every       *)
(* POSITIVE image size and every page size the Dialect B rectangle is      *)
(* (minX*pw/iw, minY*ph/ih, maxX*pw/iw, maxY*ph/ih) with no vertical flip, *)
(* so x0 <= x1 and y0 <= y1; page 600x800, image 1200x1600 and points      *)
(* [[100,100],[300,300]] give (50,50,150,150).                             *)
(***************************************************************************)
C12_RectForPositiveImageSize ==
  /\ (pc = "ret" /\ fnIn.image_width > 0 /\ fnIn.image_height > 0) =>
       RectScaledAndOrdered
  /\ (pc = "ret" /\ RectExampleInput) => RectExampleOutput

\* the example of C12 with its corners in reverse order
C12_Witness ==
  /\ pc = "ret"
  /\ fnIn.labelme_points = <<<<300, 300>>, <<100, 100>>>>
  /\ RectExampleInput
  /\ RectExampleOutput

\* the page number is within the Document and the bbox is [x, y, w, h]
BboxCallInRange ==
  /\ 0 <= fnIn.page_num /\ fnIn.page_num < page_count(fnIn.doc)
  /\ fnIn.bbox.k = "list" /\ Len(fnIn.bbox.v) = 4

(***************************************************************************)
(* C13.  For a Dialect A region with bbox = [x, y, w, h] on an in-range    *)
(* page the rectangle of the text query is exactly (x, y, x+w, y+h),       *)
(* whatever the width and height of the page; bbox [10,20,30,40] gives     *)
(* (10,20,40,60), and that one rectangle is the only one queried.          *)
(***************************************************************************)
C13_BboxRectUnscaled ==
  (pc = "ret" /\ BboxCallInRange) =>
    LET b == fnIn.bbox.v
    IN /\ fnOut.clip = {<<b[1], b[2], b[1] + b[3], b[2] + b[4]>>}
       /\ fnOut.read = {fnIn.page_num}
       /\ b = <<10, 20, 30, 40>> => fnOut.clip = {<<10, 20, 40, 60>>}
       /\ fnIn.doc.kind[fnIn.page_num + 1] = "text" =>
            fnOut.out = Ret(<<fnIn.page_num, b[1], b[2], b[1] + b[3], b[2] + b[4]>>)

\* bbox [10,20,30,40] on the second page of a Document with 800x600 pages
C13_Witness ==
  /\ pc = "ret"
  /\ fnIn.bbox = Bbox1 /\ fnIn.page_num = 1
  /\ fnIn.doc.rect = [width |-> 800, height |-> 600]
  /\ fnOut.clip = {<<10, 20, 40, 60>>}
  /\ fnOut.out = Ret(<<1, 10, 20, 40, 60>>)

\* a stored page file that process_labelme_json can work through: it
\* parses, has 'shapes' made of objects, and image sizes other than 0
PageFileWellFormed(file) ==
  /\ file.kind = "ok" /\ file.hasShapes
  /\ GetOr0(file.imageWidth) # 0 /\ GetOr0(file.imageHeight) # 0
  /\ \A i \in 1..Len(file.shapes) : file.shapes[i].isObject

\* the number of page mappings differs from the Document's page count
PageCountMismatch ==
  /\ dialect = "B" /\ page_json_files # <<>>
  /\ Len(page_json_files) # page_count(doc)

(***************************************************************************)
(* C14.  When the number of page mappings of a Dialect B group differs     *)
(* from the page count, the pair is still not reported as failed, every    *)
(* mapping whose index N - 1 is in [0, page count) is processed and (its   *)
(* file being well-formed) written back with every shape carrying the      *)
(* field, and every mapping whose index is out of that range is skipped    *)
(* without a page being read for it.                                       *)
(* Fails on the code: the loop skips on page_num_0based >= pdf_page_count  *)
(* only (line 226), so page_0.json (index -1) is not skipped; the text of  *)
(* the last page is attached to its shapes (see C5).                       *)
(***************************************************************************)
C14_CountMismatchIsOnlyAWarning ==
  PageCountMismatch =>
    /\ pc = "returned" => LastResult
    /\ (pc = "pages" /\ fileIdx >= 2) =>
         LET page_num_0based == page_json_files[fileIdx - 1][1] - 1
             json_path == page_json_files[fileIdx - 1][2]
         IN IF 0 <= page_num_0based /\ page_num_0based < page_count(doc)
            THEN /\ status # "skipped"
                 /\ PageFileWellFormed(disk) =>
                      /\ status = "saved" /\ json_path \in written
                      /\ \A i \in 1..Len(disk.shapes) : disk.shapes[i].text.set
            ELSE /\ status = "skipped"
                 /\ page_num_0based \notin reads

\* the annotations of the group in work that were processed and whose page
\* index is within the Document
InRangeProcessed ==
  {i \in 1..(idx - 1) :
     LET resolved == get_page_number_from_image_id(mem, mem.annotations[i].image_id)
     IN 0 <= resolved.val /\ resolved.val < page_count(doc)}

(***************************************************************************)
(* C15.  The orchestrator's count of succeeded (updated) regions never     *)
(* includes a region that is out of page range: in Dialect A               *)
(* updated_count is at most the number of processed annotations whose page *)
(* index is in [0, page count).                                            *)
(* Fails on the code: process_pdf_layout_pair returns True / False only,   *)
(* with no counts, and updated_count (line 127) is incremented whenever    *)
(* extract_text_from_bbox returns, the "" of an out-of-range page (line    *)
(* 59) included.                                                           *)
(***************************************************************************)
C15_OutOfRangeNeverCountedUpdated ==
  (dialect = "A" /\ pc \in {"annots", "returned"} /\ mem.kind = "ok") =>
    count <= Cardinality(InRangeProcessed)

(***************************************************************************)
(* C18.  The page mapping returned by get_page_json_files never holds two  *)
(* entries with the same page number N, whatever the file names of the     *)
(* directory (names that differ in letter case or in leading zeros of N    *)
(* included).                                                              *)
(* Fails on the code: every matching file name is appended (line 76) and   *)
(* the list is only sorted (line 80), so page_2.json and page_02.json both *)
(* come back with N = 2.                                                   *)
(***************************************************************************)
C18_NoTwoEntriesForOnePage ==
  pc = "ret" =>
    \A i, j \in 1..Len(fnOut) : i # j => fnOut[i][1] # fnOut[j][1]

\* correct_labels_in_json ran on a file that parses and has 'shapes'
LabelRunOnShapes ==
  /\ pc = "ret" /\ fnOut.ran
  /\ fnIn.data.kind = "ok" /\ fnIn.data.hasShapes

\* every label that is a key of the mapping was replaced by its value, once,
\* every other label is as it was, and the count is the number of replaced labels
LabelsCorrectedOnce ==
  LET bad == fnIn.lists[1]
      good == fnIn.lists[2]
      keys == Range(bad)
      target(l) == good[CHOOSE i \in 1..Len(bad) :
                          bad[i] = l /\ \A j \in (i + 1)..Len(bad) : bad[j] # l]
      orig == fnIn.data.shapes
      now == fnOut.disk.shapes
      hits == {i \in 1..Len(orig) : orig[i].hasLabel /\ orig[i].label \in keys}
  IN /\ Len(now) = Len(orig)
     /\ \A i \in 1..Len(orig) :
          /\ now[i].isObject = orig[i].isObject
          /\ now[i].hasLabel = orig[i].hasLabel
          /\ now[i].label = IF i \in hits THEN target(orig[i].label)
                            ELSE orig[i].label
     /\ fnOut.ret = Cardinality(hits)

AllShapesObjects ==
  \A i \in 1..Len(fnIn.data.shapes) : fnIn.data.shapes[i].isObject

ProcessedUpToIdx ==
  /\ (dialect = "A" /\ pc = "annots") =>
       \A i \in 1..Len(mem.annotations) :
         mem.annotations[i].text.set <=> i < idx
  /\ (dialect = "B" /\ pc = "shapes") =>
       \A i \in 1..Len(mem.shapes) : mem.shapes[i].text.set <=> i < idx

\* the page files are taken up in ascending order of their page number
PagesAscending ==
  \A i, j \in 1..Len(page_json_files) :
    i < j => page_json_files[i][1] <= page_json_files[j][1]

\* a step inside a loop goes on to the next region of the list, or, in
\* Dialect B, from a page file to the next one of the mapping; it never
\* goes back
LoopsAdvanceInOrder ==
  /\ (pc = "annots" /\ pc' = "annots") =>
       /\ idx' = idx + 1
       /\ \A i \in 1..Len(mem.annotations) :
            i # idx => mem'.annotations[i] = mem.annotations[i]
  /\ (pc = "shapes" /\ pc' = "shapes") =>
       /\ idx' = idx + 1 /\ fileIdx' = fileIdx
       /\ \A i \in 1..Len(mem.shapes) : i # idx => mem'.shapes[i] = mem.shapes[i]
  /\ (pc \in {"pages", "shapes"} /\ pc' \in {"pages", "shapes"}) =>
       /\ page_json_files' = page_json_files
       /\ fileIdx' = IF pc' = "pages" THEN fileIdx + 1 ELSE fileIdx
  /\ (pc = "pages" /\ pc' = "shapes") => idx' = 1

(***************************************************************************)
(* C17.  Regions are processed in a fixed order: in Dialect A in the order *)
(* of the annotations list, in Dialect B page file by page file in         *)
(* ascending order of the page number and, within a page file, in the      *)
(* order of its shapes list; no region of a later page is processed before *)
(* a region of an earlier page.                                            *)
(***************************************************************************)
C17_RegionsProcessedInOrder ==
  /\ [](ProcessedUpToIdx /\ PagesAscending)
  /\ [][LoopsAdvanceInOrder]_vars

\* the second shape of the second page file is about to be processed, the
\* first page file having a smaller page number
C17_Witness ==
  /\ dialect = "B" /\ pc = "shapes"
  /\ fileIdx = 2 /\ idx = 2 /\ Len(mem.shapes) = 2
  /\ page_json_files[1][1] < page_json_files[2][1]
  /\ mem.shapes[1].text.set /\ ~mem.shapes[2].text.set

(***************************************************************************)
(* C16.  Running the pipeline a second time on a group it has augmented,   *)
(* against the same Document, leaves the stored group equal to what the    *)
(* first run left: every original_pdf_text_layer is overwritten with the   *)
(* same value, nothing is accumulated or duplicated.  During and after the *)
(* second run of a group (Dialect A) or page file (Dialect B) what is      *)
(* stored equals what the first run left stored.                           *)
(***************************************************************************)
C16_SecondRunLeavesGroupEqual ==
  firstRun # NoData => disk = firstRun

\* the second run has written the group back, a region of which holds text
C16_Witness ==
  /\ dialect = "A" /\ pc = "returned" /\ firstRun # NoData
  /\ CocoName \in written
  /\ \E i \in 1..Len(disk.annotations) :
       /\ disk.annotations[i].text.set
       /\ disk.annotations[i].text.val # EmptyText

=============================================================================
